---------------------------- MODULE Spec2Model ----------------------------
(***************************************************************************)
(* The connection classifier and action router of the fuso server          *)
(* (src/src/server.rs): the two chain_handler stages, the two              *)
(* chain_strategy stages and the cipher-wrapped forwarding closure.        *)
(*                                                                         *)
(* The stream wrapper (begin/back/release), the Action codec, the SOCKS5   *)
(* negotiation, the chain dispatcher and the Xor cipher live in other      *)
(* crates of the repository; they are modelled here from their interface   *)
(* description and marked as such where they are defined.                  *)
(***************************************************************************)
EXTENDS Integers, Sequences, FiniteSets, TLC

(***************************************************************************)
(* Bounds of the model.                                                    *)
(***************************************************************************)
\* How many protocol chunks the peer presents on one connection.
MaxChunks == 2
\* Longest plaintext handed to the cipher.
MaxLen == 2

(***************************************************************************)
(* Bytes and byte strings.                                                 *)
(***************************************************************************)
Byte == 0..255

\* b"GET / HTTP/1.1"
WsPrefix == <<71, 69, 84, 32, 47, 32, 72, 84, 84, 80, 47, 49, 46, 49>>

\* b"\r\n\r\n"
WsSuffix == <<13, 10, 13, 10>>

\* b"HTTP/1.1 101 Switching Protocols\r\nUpgrade: websocket\r\nConnection: Upgrade\r\n\r\n"
WsResponse ==
    <<72, 84, 84, 80, 47, 49, 46, 49, 32, 49, 48, 49, 32, 83, 119, 105, 116,
      99, 104, 105, 110, 103, 32, 80, 114, 111, 116, 111, 99, 111, 108, 115,
      13, 10, 85, 112, 103, 114, 97, 100, 101, 58, 32, 119, 101, 98, 115,
      111, 99, 107, 101, 116, 13, 10, 67, 111, 110, 110, 101, 99, 116, 105,
      111, 110, 58, 32, 85, 112, 103, 114, 97, 100, 101, 13, 10, 13, 10>>

\* buf.resize(1024, 0): the most one read of the probe stage returns.
BufSize == 1024

\* slice::starts_with
StartsWith(b, p) ==
    /\ Len(b) >= Len(p)
    /\ SubSeq(b, 1, Len(p)) = p

\* slice::ends_with
EndsWith(b, s) ==
    /\ Len(b) >= Len(s)
    /\ SubSeq(b, Len(b) - Len(s) + 1, Len(b)) = s

\* The bytes of s after the first n.
Drop(s, n) == SubSeq(s, n + 1, Len(s))

\* The first n bytes of s.
Take(s, n) == SubSeq(s, 1, n)

Min(a, b) == IF a <= b THEN a ELSE b

(***************************************************************************)
(* Data model: Address and Action (fuso_core::packet), and the address     *)
(* type of the SOCKS5 library (fuso_socks::Addr), a different type with    *)
(* the same two variants.                                                  *)
(***************************************************************************)
CoreSocket(ip, port) == [lib |-> "core", kind |-> "Socket", host |-> ip, port |-> port]

CoreDomain(name, port) == [lib |-> "core", kind |-> "Domain", host |-> name, port |-> port]

SocksSocket(ip, port) == [lib |-> "socks", kind |-> "Socket", host |-> ip, port |-> port]

SocksDomain(name, port) == [lib |-> "socks", kind |-> "Domain", host |-> name, port |-> port]

TcpBind(name, addr) == [tag |-> "TcpBind", name |-> name, addr |-> addr]

UdpBind(conv) == [tag |-> "UdpBind", conv |-> conv]

Connect(conv, addr) == [tag |-> "Connect", conv |-> conv, addr |-> addr]

Forward(conv, addr) == [tag |-> "Forward", conv |-> conv, addr |-> addr]

Err(msg) == [tag |-> "Err", msg |-> msg]

NoAction == [tag |-> "None"]

\* ([0, 0, 0, 0], 0).into()
AnyAddr == CoreSocket(<<0, 0, 0, 0>>, 0)

\* The hosts, ports, names, conversation ids and messages the model draws from.
Ip1 == <<93, 184, 216, 34>>

Ip2 == <<127, 0, 0, 1>>

Host1 == <<97, 46, 98>>

Name1 == <<109, 121>>

Msg1 == <<116, 97, 107, 101, 110>>

Msg2 == <<98, 117, 115, 121>>

Convs == {0, 42}

Msgs == {Msg1, Msg2}


(***************************************************************************)
(* The Action wire codec (fuso_core::packet), modelled from its interface: *)
(* one framed message per recv/send, a tagged union inside.  The frame is  *)
(* <<magic, cmd, payload length>> followed by the payload.                 *)
(***************************************************************************)
PacketMagic == 204

U16(n) == <<(n \div 256) % 256, n % 256>>

U32(n) == <<(n \div 16777216) % 256, (n \div 65536) % 256, (n \div 256) % 256, n % 256>>

FromU16(b) == b[1] * 256 + b[2]

FromU32(b) == b[1] * 16777216 + b[2] * 65536 + b[3] * 256 + b[4]

\* An address on the wire: type 1 is four ip bytes, type 3 a length-prefixed
\* name; the port follows in network order.
EncodeAddr(a) ==
    IF a.kind = "Socket"
    THEN <<1>> \o a.host \o U16(a.port)
    ELSE <<3, Len(a.host)>> \o a.host \o U16(a.port)

\* Parses an address at the head of b: [ok, eof, kind, host, port, len].
DecodeAddr(b) ==
    LET bad(eof) == [ok |-> FALSE, eof |-> eof, kind |-> "", host |-> <<>>, port |-> 0, len |-> 0]
    IN  IF Len(b) < 1 THEN bad(TRUE)
        ELSE IF b[1] = 1
        THEN IF Len(b) < 7 THEN bad(TRUE)
             ELSE [ok |-> TRUE, eof |-> FALSE, kind |-> "Socket", host |-> SubSeq(b, 2, 5),
                   port |-> FromU16(SubSeq(b, 6, 7)), len |-> 7]
        ELSE IF b[1] = 3
        THEN IF Len(b) < 2 \/ Len(b) < 4 + b[2] THEN bad(TRUE)
             ELSE [ok |-> TRUE, eof |-> FALSE, kind |-> "Domain", host |-> SubSeq(b, 3, 2 + b[2]),
                   port |-> FromU16(SubSeq(b, 3 + b[2], 4 + b[2])), len |-> 4 + b[2]]
        ELSE bad(FALSE)

CoreAddr(d) == IF d.kind = "Socket" THEN CoreSocket(d.host, d.port) ELSE CoreDomain(d.host, d.port)

SocksAddr(d) == IF d.kind = "Socket" THEN SocksSocket(d.host, d.port) ELSE SocksDomain(d.host, d.port)

Frame(cmd, payload) == <<PacketMagic, cmd, Len(payload)>> \o payload

\* Action -> packet bytes (Action::into, then send).
EncodeAction(a) ==
    CASE a.tag = "TcpBind" -> Frame(1, <<Len(a.name)>> \o a.name \o EncodeAddr(a.addr))
      [] a.tag = "UdpBind" -> Frame(2, U32(a.conv))
      [] a.tag = "Connect" -> Frame(3, U32(a.conv) \o EncodeAddr(a.addr))
      [] a.tag = "Forward" -> Frame(4, U32(a.conv) \o EncodeAddr(a.addr))
      [] a.tag = "Err" -> Frame(5, a.msg)

\* tcp.recv(): one frame from the head of b: [ok, eof, cmd, data, len]; eof says
\* that the stream ended inside the frame.
RecvPacket(b) ==
    LET bad(eof) == [ok |-> FALSE, eof |-> eof, cmd |-> 0, data |-> <<>>, len |-> 0]
    IN  IF Len(b) < 3 THEN bad(TRUE)
        ELSE IF b[1] # PacketMagic THEN bad(FALSE)
        ELSE IF Len(b) < 3 + b[3] THEN bad(TRUE)
        ELSE [ok |-> TRUE, eof |-> FALSE, cmd |-> b[2], data |-> SubSeq(b, 4, 3 + b[3]),
              len |-> 3 + b[3]]

\* Packet -> Action (try_into): [ok, action].
TryIntoAction(p) ==
    LET d == p.data
        bad == [ok |-> FALSE, action |-> NoAction]
        good(a) == [ok |-> TRUE, action |-> a]
        convAddr(mk(_, _)) ==
            IF Len(d) < 4 THEN bad
            ELSE LET ad == DecodeAddr(Drop(d, 4))
                 IN  IF ad.ok /\ ad.len = Len(d) - 4
                     THEN good(mk(FromU32(Take(d, 4)), CoreAddr(ad)))
                     ELSE bad
    IN  CASE p.cmd = 1 ->
               IF Len(d) < 1 \/ Len(d) < 1 + d[1] THEN bad
               ELSE LET ad == DecodeAddr(Drop(d, 1 + d[1]))
                    IN  IF ad.ok /\ ad.len = Len(d) - 1 - d[1]
                        THEN good(TcpBind(SubSeq(d, 2, 1 + d[1]), CoreAddr(ad)))
                        ELSE bad
          [] p.cmd = 2 -> IF Len(d) = 4 THEN good(UdpBind(FromU32(d))) ELSE bad
          [] p.cmd = 3 -> convAddr(Connect)
          [] p.cmd = 4 -> convAddr(Forward)
          [] p.cmd = 5 -> good(Err(d))
          [] OTHER -> bad

\* tcp.recv().await?.try_into()? on the bytes b: [ok, eof, action, len].
DecodeAction(b) ==
    LET p == RecvPacket(b)
        a == TryIntoAction(p)
    IN  IF p.ok /\ a.ok
        THEN [ok |-> TRUE, eof |-> FALSE, action |-> a.action, len |-> p.len]
        ELSE [ok |-> FALSE, eof |-> p.eof, action |-> NoAction, len |-> 0]

(***************************************************************************)
(* The SOCKS5 negotiation (fuso_socks, authenticate(None)), modelled from  *)
(* its interface and RFC 1928: a greeting <<5, n, methods>>, then a        *)
(* request <<5, cmd, 0, address>>.  The outcome is Tcp(addr), Udp, or an   *)
(* error of kind InvalidData (the bytes are not SOCKS5) or of another kind *)
(* (the stream ended, no acceptable method, an unsupported command).       *)
(***************************************************************************)
SocksResult(kind, addr, len) == [kind |-> kind, addr |-> addr, len |-> len]

NoAddr == SocksSocket(<<0, 0, 0, 0>>, 0)

\* The outcome of the negotiation on the bytes b; len is how many of them it
\* consumed (on a failure, the bytes read up to the offending one).
Authenticate(b) ==
    LET fail(kind, n) == SocksResult(kind, NoAddr, n)
    IN  IF Len(b) < 1 THEN fail("Other", 0)
        ELSE IF b[1] # 5 THEN fail("InvalidData", 1)
        ELSE IF Len(b) < 2 \/ Len(b) < 2 + b[2] THEN fail("Other", Len(b))
        ELSE IF \A i \in 3..(2 + b[2]) : b[i] # 0 THEN fail("Other", 2 + b[2])
        ELSE LET g == 2 + b[2]
                 r == Drop(b, g)
             IN  IF Len(r) < 1 THEN fail("Other", g)
                 ELSE IF r[1] # 5 THEN fail("InvalidData", g + 1)
                 ELSE IF Len(r) < 3 THEN fail("Other", Len(b))
                 ELSE LET ad == DecodeAddr(Drop(r, 3))
                      IN  IF ~ad.ok
                          THEN IF ad.eof THEN fail("Other", Len(b))
                               ELSE fail("InvalidData", g + 4)
                          ELSE IF r[2] = 1 THEN SocksResult("Tcp", SocksAddr(ad), g + 3 + ad.len)
                          ELSE IF r[2] = 3 THEN SocksResult("Udp", SocksAddr(ad), g + 3 + ad.len)
                          ELSE fail("Other", g + 3 + ad.len)

\* A client's greeting and request, as bytes.
SocksRequest(cmd, a) == <<5, 1, 0, 5, cmd, 0>> \o EncodeAddr(a)


(***************************************************************************)
(* What a peer presents: up to MaxChunks protocol chunks, back to back.    *)
(***************************************************************************)
ProbeChunk == WsPrefix \o WsSuffix

HalfProbe == WsPrefix \o <<13, 10>>

SampleActions ==
    { TcpBind(Name1, CoreSocket(Ip2, 8080)),
      UdpBind(42),
      Connect(42, CoreDomain(Host1, 443)),
      Forward(0, CoreSocket(Ip1, 80)),
      Err(Msg1) }

Chunks ==
    { ProbeChunk, HalfProbe, Frame(9, <<>>), <<0, 0, 0>> }
    \cup { EncodeAction(a) : a \in SampleActions }
    \cup { SocksRequest(1, SocksSocket(Ip1, 80)),
           SocksRequest(1, SocksDomain(Host1, 443)),
           SocksRequest(3, SocksSocket(<<0, 0, 0, 0>>, 0)),
           SocksRequest(2, SocksSocket(Ip1, 80)) }

RECURSIVE InputsOf(_)
InputsOf(n) ==
    IF n = 0 THEN { <<>> }
    ELSE LET shorter == InputsOf(n - 1)
         IN  shorter \cup { s \o c : s \in shorter, c \in Chunks }

Inputs == InputsOf(MaxChunks)

(***************************************************************************)
(* State of one connection task.                                           *)
(***************************************************************************)
VARIABLES
    input,      \* the bytes the peer presents on the connection
    pos,        \* the stream's cursor: how many bytes of input are consumed
    mark,       \* the stream's checkpoint (NoMark when none is set)
    written,    \* the bytes written to the peer
    logLevel,   \* the configured log level
    pc,         \* where the connection task stands
    idx,        \* the index in Chain of the stage that runs
    entry,      \* pos when the running stage was entered
    action,     \* the Action decoded by the dispatch stage
    res,        \* the result of the SOCKS5 negotiation
    spawned,    \* the result of the spawn call
    calls,      \* the calls made on the routing context, in order
    ops,        \* the stream operations made by the stages, in order
    trail,      \* the stages that have returned, with what they returned
    outcome,    \* the terminal outcome of the chain run
    xor_num,    \* the cipher key
    plain,      \* the bytes handed to the forwarder
    wire,       \* those bytes as the ciphered half carries them
    recovered,  \* those bytes as read back through a ciphered half with the same key
    xor,        \* the cipher wrapped around the `to` half
    fwd,        \* where the forwarding closure stands
    process,    \* whether the server process runs
    loop,       \* where the for_each loop of main stands
    task,       \* the connection tasks
    registry,   \* the routing context's registry: the streams routed to each conv
    relay       \* the forwarding tasks

connVars == <<input, pos, mark, written, logLevel, pc, idx, entry, action, res,
              spawned, calls, ops, trail, outcome>>

cipherVars == <<xor_num, plain, wire, recovered, xor, fwd>>

serverVars == <<process, loop, task, registry, relay>>

vars == <<connVars, cipherVars, serverVars>>

(***************************************************************************)
(* The peekable stream (begin / back / release), modelled from its         *)
(* interface: begin marks a checkpoint at the cursor, back rewinds the     *)
(* cursor to the last checkpoint and drops it, release drops it.           *)
(***************************************************************************)
NoMark == -1

BeginMark(p, m) == p

BackPos(p, m) == IF m = NoMark THEN p ELSE m

\* The bytes a read at cursor p sees.
Rest(p) == Drop(input, p)

Op(stage, op, from, to) == [stage |-> stage, op |-> op, from |-> from, to |-> to]

(***************************************************************************)
(* Logging: env_logger's filter level decides which log macros evaluate    *)
(* their arguments.                                                        *)
(***************************************************************************)
LogLevels == {"debug", "info", "trace", "error", "warn"}

DebugEnabled == logLevel \in {"debug", "trace"}

InfoEnabled == logLevel \in {"info", "debug", "trace"}

(***************************************************************************)
(* Stage outcomes and the chain dispatcher.                                *)
(***************************************************************************)
Unit == [tag |-> "Unit"]

StateNext == [kind |-> "Next", val |-> Unit, why |-> ""]

StateAccept(v) == [kind |-> "Accept", val |-> v, why |-> ""]

StateRelease == [kind |-> "Release", val |-> Unit, why |-> ""]

Failure(why) == [kind |-> "Error", val |-> Unit, why |-> why]

Panic(why) == [kind |-> "Panic", val |-> Unit, why |-> why]

Running == [kind |-> "Running", val |-> Unit, why |-> ""]

Unhandled == [kind |-> "Unhandled", val |-> Unit, why |-> ""]

\* The stages in the order they are registered with chain.next(..).
Handlers == <<"ws", "act">>

Strategys == <<"socks", "default">>

\* The classifier chain, then the strategy chain on fall-through.
Chain == Handlers \o Strategys

EntryPc(stage) ==
    CASE stage = "ws" -> "ws_begin"
      [] stage = "act" -> "act_recv"
      [] stage = "socks" -> "socks_begin"
      [] stage = "default" -> "default"

\* A dispatcher that skips a failed stage and runs the next one.
ReturnSkipsErrors(ret, p) ==
    /\ trail' = Append(trail, [stage |-> Chain[idx], ret |-> ret.kind,
                               entry |-> entry, exit |-> p])
    /\ IF ret.kind \in {"Next", "Error"} /\ idx < Len(Chain)
       THEN /\ idx' = idx + 1
            /\ pc' = EntryPc(Chain[idx + 1])
            /\ entry' = p
            /\ outcome' = outcome
       ELSE /\ pc' = "done"
            /\ outcome' = IF ret.kind = "Next" THEN Unhandled ELSE ret
            /\ UNCHANGED <<idx, entry>>

\* The running stage returns ret with the cursor at p: Next runs the next
\* stage of the chain, anything else ends the run of the chain.
Return(ret, p) ==
    /\ trail' = Append(trail, [stage |-> Chain[idx], ret |-> ret.kind,
                               entry |-> entry, exit |-> p])
    /\ IF ret.kind = "Next"
       THEN IF idx < Len(Chain)
            THEN /\ idx' = idx + 1
                 /\ pc' = EntryPc(Chain[idx + 1])
                 /\ entry' = p
                 /\ outcome' = outcome
            ELSE /\ pc' = "done"
                 /\ outcome' = Unhandled
                 /\ UNCHANGED <<idx, entry>>
       ELSE /\ pc' = "done"
            /\ outcome' = ret
            /\ UNCHANGED <<idx, entry>>

(***************************************************************************)
(* The server as a whole: the for_each loop of main, one task for every    *)
(* accepted connection and one detached task for every forward.            *)
(***************************************************************************)
\* How many connections are accepted.
MaxConns == 2

\* A connection, its stream and its task go by the same number.
Conns == 1..MaxConns

\* What the peer of a connection asks for.
Wants == {"Connect", "TcpBind", "Udp", "Forward"}

\* The conv and the stream a route call was given.
RouteArgs(conv, stream) == [conv |-> conv, stream |-> stream]

NoRoute == RouteArgs(0, 0)

\* A connection task: what its peer asks for (with the conv of a Connect),
\* where it stands, and the route call it has made.
ConnTask(want, conv, st, call) == [want |-> want, conv |-> conv, st |-> st, call |-> call]

NoTask == ConnTask("none", 0, "free", NoRoute)

\* A forwarding task: its state and the state of its two relay directions.
Relay(st, up, down) == [st |-> st, up |-> up, down |-> down]

NoRelay == Relay("none", "idle", "idle")

\* fuso.for_each(..) polls for the next completed match, or runs the
\* closure on the match of connection t.
LoopNext == [at |-> "next", of |-> 0]

LoopClosure(t) == [at |-> "closure", of |-> t]

\* No server runs: a single connection or a single forward is looked at.
ServerIdle ==
    /\ process = "running"
    /\ loop = LoopNext
    /\ task = [t \in Conns |-> NoTask]
    /\ registry = [c \in Convs |-> <<>>]
    /\ relay = [t \in Conns |-> NoRelay]

\* Result<conv, error> of spawn.
SpawnOk(conv) == [ok |-> TRUE, conv |-> conv, msg |-> <<>>]

SpawnErr(msg) == [ok |-> FALSE, conv |-> 0, msg |-> msg]

NoSpawn == [ok |-> FALSE, conv |-> 0, msg |-> <<>>]

\* Xor::new(key)
XorNew(key) == [key |-> key]

NoCipher == [key |-> 0]

\* No forwarding is under way.
CipherIdle ==
    /\ xor_num = 0
    /\ plain = <<>>
    /\ wire = <<>>
    /\ recovered = <<>>
    /\ xor = NoCipher
    /\ fwd = "idle"

Init ==
    /\ CipherIdle
    /\ ServerIdle
    /\ input \in Inputs
    /\ logLevel \in LogLevels
    /\ pos = 0
    /\ mark = NoMark
    /\ written = <<>>
    /\ pc = EntryPc(Chain[1])
    /\ idx = 1
    /\ entry = 0
    /\ action = NoAction
    /\ res = SocksResult("None", NoAddr, 0)
    /\ spawned = NoSpawn
    /\ calls = <<>>
    /\ ops = <<>>
    /\ trail = <<>>
    /\ outcome = Running

(***************************************************************************)
(* Classifier stage 1: the WebSocket probe.                                *)
(***************************************************************************)
\* let _ = tcp.begin().await;
WsBegin ==
    /\ pc = "ws_begin"
    /\ mark' = BeginMark(pos, mark)
    /\ ops' = Append(ops, Op("ws", "begin", pos, pos))
    /\ pc' = "ws_read"
    /\ UNCHANGED <<input, pos, written, logLevel, idx, entry, action, res, spawned,
                   calls, trail, outcome, cipherVars, serverVars>>

\* The probe test of the bytes one read returned.
IsProbe(buf) == StartsWith(buf, WsPrefix) /\ EndsWith(buf, WsSuffix)

\* How many bytes one read into the buffer may return.
ReadSizes == IF Len(input) = pos THEN {0} ELSE 1..Min(Len(input) - pos, BufSize)

\* let n = tcp.read(&mut buf).await?; buf.truncate(n); then the probe test:
\* a match goes on to write the response, anything else rolls back and
\* returns Next.
WsRead ==
    /\ pc = "ws_read"
    /\ \/ /\ Return(Failure("read"), pos)
          /\ UNCHANGED <<pos, mark, ops>>
       \/ \E n \in ReadSizes :
            LET buf == SubSeq(input, pos + 1, pos + n)
                read == Op("ws", "read", pos, pos + n)
            IN  IF IsProbe(buf)
                THEN /\ pos' = pos + n
                     /\ ops' = Append(ops, read)
                     /\ pc' = "ws_write"
                     /\ UNCHANGED <<mark, idx, entry, trail, outcome>>
                ELSE /\ pos' = BackPos(pos + n, mark)
                     /\ mark' = NoMark
                     /\ ops' = ops \o <<read, Op("ws", "back", pos + n, pos')>>
                     /\ Return(StateNext, pos')
    /\ UNCHANGED <<input, written, logLevel, action, res, spawned, calls, cipherVars, serverVars>>

\* A probe stage that upgrades without answering the peer.
WsWriteNothing ==
    /\ pc = "ws_write"
    /\ Return(StateNext, pos)
    /\ UNCHANGED <<input, pos, mark, logLevel, action, res, spawned, calls, written,
                   ops, cipherVars, serverVars>>

\* tcp.write_all(b"HTTP/1.1 101 ...").await?; Ok(State::Next): all of the
\* response is written, or the write fails after a part of it.
WsWrite ==
    /\ pc = "ws_write"
    /\ \/ /\ written' = written \o WsResponse
          /\ ops' = Append(ops, Op("ws", "write", pos, pos))
          /\ Return(StateNext, pos)
       \/ /\ \E k \in 0..(Len(WsResponse) - 1) : written' = written \o Take(WsResponse, k)
          /\ Return(Failure("write"), pos)
          /\ UNCHANGED ops
    /\ UNCHANGED <<input, pos, mark, logLevel, action, res, spawned, calls, cipherVars, serverVars>>


(***************************************************************************)
(* Classifier stage 2: the action dispatch.                                *)
(***************************************************************************)
\* let action: Action = tcp.recv().await?.try_into()?; the stream fails or
\* ends inside the frame ("recv"), or the bytes are no Action ("decode").
ActRecv ==
    /\ pc = "act_recv"
    /\ \/ /\ Return(Failure("recv"), pos)
          /\ UNCHANGED <<pos, action, ops>>
       \/ LET d == DecodeAction(Rest(pos))
          IN  IF d.ok
              THEN /\ action' = d.action
                   /\ pos' = pos + d.len
                   /\ ops' = Append(ops, Op("act", "recv", pos, pos'))
                   /\ pc' = "act_begin"
                   /\ UNCHANGED <<idx, entry, trail, outcome>>
              ELSE /\ Return(Failure(IF d.eof THEN "recv" ELSE "decode"), pos)
                   /\ UNCHANGED <<pos, action, ops>>
    /\ UNCHANGED <<input, mark, written, logLevel, res, spawned, calls, cipherVars, serverVars>>

\* let _ = tcp.begin().await;
ActBegin ==
    /\ pc = "act_begin"
    /\ mark' = BeginMark(pos, mark)
    /\ ops' = Append(ops, Op("act", "begin", pos, pos))
    /\ pc' = "act_match"
    /\ UNCHANGED <<input, pos, written, logLevel, idx, entry, action, res, spawned,
                   calls, trail, outcome, cipherVars, serverVars>>

SpawnCall(name, addr) == [op |-> "spawn", stream |-> "tcp", name |-> name, addr |-> addr]

RouteCall(conv, act) == [op |-> "route", stream |-> "tcp", conv |-> conv, action |-> act]

\* Which arm of `match action` is taken.
Arm(a) ==
    CASE a.tag = "TcpBind" -> "spawn"
      [] a.tag = "UdpBind" -> "route"
      [] a.tag = "Connect" -> "route"
      [] OTHER -> "next"

\* Action::TcpBind(name, addr) => match cx.spawn(tcp.clone(), addr, name).await
ActSpawn ==
    /\ pc = "act_match"
    /\ Arm(action) = "spawn"
    /\ calls' = Append(calls, SpawnCall(action.name, action.addr))
    /\ \/ \E conv \in Convs :
            /\ spawned' = SpawnOk(conv)
            /\ pc' = "bind_ok"
       \/ \E msg \in Msgs :
            /\ spawned' = SpawnErr(msg)
            /\ pc' = "bind_err"
    /\ UNCHANGED <<input, pos, mark, written, logLevel, idx, entry, action, res,
                   ops, trail, outcome, cipherVars, serverVars>>

\* A successful bind that also answers the peer with the new conv.
BindOkAck ==
    /\ pc = "bind_ok"
    /\ written' = written \o EncodeAction(UdpBind(spawned.conv))
    /\ Return(StateAccept(Unit), pos)
    /\ UNCHANGED <<input, pos, mark, logLevel, action, res, spawned, calls, ops,
                   cipherVars, serverVars>>

\* Ok(conv) => { log::debug!(.., conv, tcp.peer_addr().unwrap()); Ok(State::Accept(())) }
BindOk ==
    /\ pc = "bind_ok"
    /\ \/ Return(StateAccept(Unit), pos)
       \/ /\ DebugEnabled
          /\ Return(Panic("peer_addr"), pos)
    /\ UNCHANGED <<input, pos, mark, written, logLevel, action, res, spawned, calls,
                   ops, cipherVars, serverVars>>

\* A bind failure that is reported in-band and then also fails the chain.
BindErrFatal ==
    /\ pc = "bind_err"
    /\ written' = written \o EncodeAction(Err(spawned.msg))
    /\ ops' = Append(ops, Op("act", "send", pos, pos))
    /\ Return(Failure("spawn"), pos)
    /\ UNCHANGED <<input, pos, mark, logLevel, action, res, spawned, calls, cipherVars, serverVars>>

\* Err(e) => { log::warn!(..); tcp.send(Action::Err(e.to_string()).into()).await?;
\*             Ok(State::Accept(())) }: all of the message is sent, or the send
\* fails after a part of it.
BindErr ==
    /\ pc = "bind_err"
    /\ \/ /\ written' = written \o EncodeAction(Err(spawned.msg))
          /\ ops' = Append(ops, Op("act", "send", pos, pos))
          /\ Return(StateAccept(Unit), pos)
       \/ /\ \E k \in 0..(Len(EncodeAction(Err(spawned.msg))) - 1) :
               written' = written \o Take(EncodeAction(Err(spawned.msg)), k)
          /\ Return(Failure("send"), pos)
          /\ UNCHANGED ops
    /\ UNCHANGED <<input, pos, mark, logLevel, action, res, spawned, calls, cipherVars, serverVars>>

\* A route arm that swallows the routing failure and falls through.
ActRouteSwallow ==
    /\ pc = "act_match"
    /\ Arm(action) = "route"
    /\ calls' = Append(calls, RouteCall(action.conv, action))
    /\ \/ Return(StateAccept(Unit), pos)
       \/ Return(StateNext, pos)
    /\ UNCHANGED <<input, pos, mark, written, logLevel, action, res, spawned, ops,
                   cipherVars, serverVars>>

\* Action::UdpBind(conv) | Action::Connect(conv, _) =>
\*     { cx.route(conv, action, tcp).await?; Ok(State::Accept(())) }
ActRoute ==
    /\ pc = "act_match"
    /\ Arm(action) = "route"
    /\ calls' = Append(calls, RouteCall(action.conv, action))
    /\ \/ Return(StateAccept(Unit), pos)
       \/ Return(Failure("route"), pos)
    /\ UNCHANGED <<input, pos, mark, written, logLevel, action, res, spawned, ops,
                   cipherVars, serverVars>>

\* A default arm that ends the chain instead of falling through.
ActOtherAccept ==
    /\ pc = "act_match"
    /\ Arm(action) = "next"
    /\ Return(StateAccept(Unit), pos)
    /\ UNCHANGED <<input, pos, mark, written, logLevel, action, res, spawned, calls,
                   ops, cipherVars, serverVars>>

\* _ => { let _ = tcp.back().await; Ok(State::Next) }
ActOther ==
    /\ pc = "act_match"
    /\ Arm(action) = "next"
    /\ pos' = BackPos(pos, mark)
    /\ mark' = NoMark
    /\ ops' = Append(ops, Op("act", "back", pos, pos'))
    /\ Return(StateNext, pos')
    /\ UNCHANGED <<input, written, logLevel, action, res, spawned, calls, cipherVars, serverVars>>


(***************************************************************************)
(* Strategy stage 1: the SOCKS5 attempt.                                   *)
(***************************************************************************)
\* let _ = tcp.begin().await;
SocksBegin ==
    /\ pc = "socks_begin"
    /\ mark' = BeginMark(pos, mark)
    /\ ops' = Append(ops, Op("socks", "begin", pos, pos))
    /\ pc' = "socks_auth"
    /\ UNCHANGED <<input, pos, written, logLevel, idx, entry, action, res, spawned,
                   calls, trail, outcome, cipherVars, serverVars>>

\* Which arm of `match tcp.clone().authenticate(None).await` is taken.
SocksArm(r) ==
    CASE r.kind = "Udp" -> "socks_udp"
      [] r.kind = "Tcp" -> "socks_tcp"
      [] r.kind = "InvalidData" -> "socks_invalid"
      [] OTHER -> "socks_fatal"

\* tcp.clone().authenticate(None).await: the negotiation on the bytes at the
\* cursor, or an i/o failure of the stream under it.
SocksAuth ==
    /\ pc = "socks_auth"
    /\ \E r \in {Authenticate(Rest(pos)), SocksResult("Other", NoAddr, 0)} :
         /\ res' = r
         /\ pos' = pos + r.len
         /\ ops' = Append(ops, Op("socks", "auth", pos, pos'))
         /\ pc' = SocksArm(r)
    /\ UNCHANGED <<input, mark, written, logLevel, idx, entry, action, spawned, calls,
                   trail, outcome, cipherVars, serverVars>>

UdpForwardCall == [op |-> "udp_forward", stream |-> "tcp"]

\* Ok(Socks::Udp(forward)) => { log::info!(.., tcp.peer_addr().unwrap());
\*     core.udp_forward(resolver).await?; Ok(State::Release) }
SocksUdp ==
    /\ pc = "socks_udp"
    /\ \/ /\ InfoEnabled
          /\ Return(Panic("peer_addr"), pos)
          /\ UNCHANGED calls
       \/ /\ calls' = Append(calls, UdpForwardCall)
          /\ Return(StateRelease, pos)
       \/ /\ calls' = Append(calls, UdpForwardCall)
          /\ Return(Failure("udp_forward"), pos)
    /\ UNCHANGED <<input, pos, mark, written, logLevel, action, res, spawned, ops,
                   cipherVars, serverVars>>

\* A translation whose Domain arm yields a Socket.
TranslateAddrSocketOnly(a) == CoreSocket(a.host, a.port)

\* match addr { fuso_socks::Addr::Socket(addr) => fuso_core::packet::Addr::Socket(addr),
\*              fuso_socks::Addr::Domain(domain, port) => fuso_core::packet::Addr::Domain(domain, port) }
TranslateAddr(a) ==
    CASE a.kind = "Socket" -> CoreSocket(a.host, a.port)
      [] a.kind = "Domain" -> CoreDomain(a.host, a.port)

\* Ok(Socks::Tcp(tcp, addr)) => Ok(State::Accept(Action::Forward(0, {
\*     let _ = tcp.release().await; <the address, translated> })))
SocksTcp ==
    /\ pc = "socks_tcp"
    /\ mark' = NoMark
    /\ ops' = Append(ops, Op("socks", "release", pos, pos))
    /\ Return(StateAccept(Forward(0, TranslateAddr(res.addr))), pos)
    /\ UNCHANGED <<input, pos, written, logLevel, action, res, spawned, calls,
                   cipherVars, serverVars>>

\* An InvalidData arm that forgets to roll the stream back.
SocksInvalidNoBack ==
    /\ pc = "socks_invalid"
    /\ Return(StateNext, pos)
    /\ UNCHANGED <<input, pos, mark, written, logLevel, action, res, spawned, calls,
                   ops, cipherVars, serverVars>>

\* Err(e) if e.kind() == std::io::ErrorKind::InvalidData =>
\*     { let _ = tcp.back().await; Ok(State::Next) }
SocksInvalid ==
    /\ pc = "socks_invalid"
    /\ pos' = BackPos(pos, mark)
    /\ mark' = NoMark
    /\ ops' = Append(ops, Op("socks", "back", pos, pos'))
    /\ Return(StateNext, pos')
    /\ UNCHANGED <<input, written, logLevel, action, res, spawned, calls, cipherVars, serverVars>>

\* A fatal arm that treats every negotiation error as a fall-through.
SocksFatalFallsBack ==
    /\ pc = "socks_fatal"
    /\ pos' = BackPos(pos, mark)
    /\ mark' = NoMark
    /\ ops' = Append(ops, Op("socks", "back", pos, pos'))
    /\ Return(StateNext, pos')
    /\ UNCHANGED <<input, written, logLevel, action, res, spawned, calls, cipherVars, serverVars>>

\* Err(e) => Err(e.into())
SocksFatal ==
    /\ pc = "socks_fatal"
    /\ Return(Failure("socks"), pos)
    /\ UNCHANGED <<input, pos, mark, written, logLevel, action, res, spawned, calls,
                   ops, cipherVars, serverVars>>

(***************************************************************************)
(* Strategy stage 2: the default.                                          *)
(***************************************************************************)
\* A default stage that falls through instead of accepting.
DefaultFallsThrough ==
    /\ pc = "default"
    /\ Return(StateNext, pos)
    /\ UNCHANGED <<input, pos, mark, written, logLevel, action, res, spawned, calls,
                   ops, cipherVars, serverVars>>

\* Ok(State::Accept(Action::Forward(0, Addr::Socket(([0, 0, 0, 0], 0).into()))))
DefaultStage ==
    /\ pc = "default"
    /\ Return(StateAccept(Forward(0, AnyAddr)), pos)
    /\ UNCHANGED <<input, pos, mark, written, logLevel, action, res, spawned, calls,
                   ops, cipherVars, serverVars>>

(***************************************************************************)
(* The Xor cipher (fuso_core::cipher), modelled from its description: every *)
(* byte that passes through the wrapped half is XORed with the key.         *)
(***************************************************************************)
RECURSIVE XorBits(_, _, _)
XorBits(a, b, n) ==
    IF n = 0 THEN 0
    ELSE ((a + b) % 2) + 2 * XorBits(a \div 2, b \div 2, n - 1)

\* A byte transform that adds the key instead.
AddByte(a, b) == (a + b) % 256

\* a ^ b on u8
XorByte(a, b) == XorBits(a, b, 8)

\* The bytes s as they leave (or enter) a half wrapped with cipher c.
XorTransform(c, s) == [i \in 1..Len(s) |-> XorByte(s[i], c.key)]

(***************************************************************************)
(* The forwarding closure of main: the matched pair is split, the `to`     *)
(* half is wrapped with the cipher, and bytes are relayed both ways.       *)
(***************************************************************************)
\* matches.value_of("xor-secret").unwrap().parse::<u8>()
Keys == 0..255

\* The byte values the relayed data is drawn from.
SampleBytes == {0, 1, 27, 128, 255}

RECURSIVE SeqsUpTo(_)
SeqsUpTo(n) ==
    IF n = 0 THEN { <<>> }
    ELSE LET shorter == SeqsUpTo(n - 1)
         IN  shorter \cup { Append(s, b) : s \in shorter, b \in SampleBytes }

\* No connection is being classified.
ConnIdle ==
    /\ input = <<>>
    /\ logLevel = "info"
    /\ pos = 0
    /\ mark = NoMark
    /\ written = <<>>
    /\ pc = "idle"
    /\ idx = 1
    /\ entry = 0
    /\ action = NoAction
    /\ res = SocksResult("None", NoAddr, 0)
    /\ spawned = NoSpawn
    /\ calls = <<>>
    /\ ops = <<>>
    /\ trail = <<>>
    /\ outcome = Running

CipherInit ==
    /\ ConnIdle
    /\ ServerIdle
    /\ xor_num \in Keys
    /\ plain \in SeqsUpTo(MaxLen)
    /\ wire = <<>>
    /\ recovered = <<>>
    /\ xor = NoCipher
    /\ fwd = "idle"

\* let xor = Xor::new(xor_num); let (from, to) = stream.split();
\* let to = to.cipher(xor.clone()).await;
ForEach ==
    /\ fwd = "idle"
    /\ xor' = XorNew(xor_num)
    /\ fwd' = "relay"
    /\ UNCHANGED <<connVars, serverVars, xor_num, plain, wire, recovered>>

\* from.forward(to): the bytes read from `from` are written through `to`.
RelayTo ==
    /\ fwd = "relay"
    /\ wire' = XorTransform(xor, plain)
    /\ fwd' = "sent"
    /\ UNCHANGED <<connVars, serverVars, xor_num, plain, recovered, xor>>

\* from.forward(to): the bytes read through `to` are written to `from`.
RelayFrom ==
    /\ fwd = "sent"
    /\ recovered' = XorTransform(xor, wire)
    /\ fwd' = "echoed"
    /\ UNCHANGED <<connVars, serverVars, xor_num, plain, wire, xor>>

CipherNext ==
    \/ ForEach
    \/ RelayTo
    \/ RelayFrom

SpecCipher == CipherInit /\ [][CipherNext]_vars

(***************************************************************************)
(* The server: connections are accepted and classified each in its own     *)
(* task; every completed match is handed to the closure of for_each, which *)
(* starts a detached forwarding task.                                      *)
(***************************************************************************)
ServerInit ==
    /\ CipherIdle
    /\ input = <<>>
    /\ logLevel \in LogLevels
    /\ pos = 0
    /\ mark = NoMark
    /\ written = <<>>
    /\ pc = "idle"
    /\ idx = 1
    /\ entry = 0
    /\ action = NoAction
    /\ res = SocksResult("None", NoAddr, 0)
    /\ spawned = NoSpawn
    /\ calls = <<>>
    /\ ops = <<>>
    /\ trail = <<>>
    /\ outcome = Running
    /\ ServerIdle

\* The task of connection t runs its classifier or strategy chain.
Classifying(t) == process = "running" /\ task[t].st = "classify"

\* The connection task t ends in state st.
TaskEnds(t, st) == task' = [task EXCEPT ![t].st = st]

\* A connection is accepted and its task started; connections are numbered
\* in the order they are accepted.
AcceptConn(t) ==
    /\ process = "running"
    /\ loop = LoopNext
    /\ task[t].st = "free"
    /\ \A u \in Conns : u < t => task[u].st # "free"
    /\ \E want \in Wants, conv \in Convs :
         /\ want # "Connect" => conv = 0
         /\ task' = [task EXCEPT ![t] = ConnTask(want, conv, "classify", NoRoute)]
    /\ UNCHANGED <<connVars, cipherVars, process, loop, registry, relay>>

\* route(conv, action, stream) of the routing context: the stream joins the
\* conversation conv, or the call fails and changes nothing.
Route(conv, stream, ok) ==
    IF ok THEN registry' = [registry EXCEPT ![conv] = Append(@, stream)]
    ELSE UNCHANGED registry

\* tcp.peer_addr().unwrap() on a failed lookup: the panic unwinds the task
\* that runs it, or aborts the process and with it every task.
PeerAddrUnwrap(t) ==
    \/ /\ TaskEnds(t, "panicked")
       /\ UNCHANGED <<process, relay>>
    \/ /\ process' = "aborted"
       /\ task' = [u \in Conns |->
                     IF u = t THEN [task[u] EXCEPT !.st = "panicked"]
                     ELSE IF task[u].st = "classify" THEN [task[u] EXCEPT !.st = "killed"]
                     ELSE task[u]]
       /\ relay' = [u \in Conns |->
                      IF relay[u].st = "relaying" THEN Relay("killed", "dropped", "dropped")
                      ELSE relay[u]]

\* A route arm that passes on a conv other than the one it decoded.
ConnRouteAnyConv(t) ==
    /\ Classifying(t)
    /\ task[t].want = "Connect"
    /\ \E c \in Convs, ok \in BOOLEAN :
         /\ Route(c, t, ok)
         /\ task' = [task EXCEPT ![t].st = IF ok THEN "accepted" ELSE "failed",
                                 ![t].call = RouteArgs(c, t)]
    /\ UNCHANGED <<connVars, cipherVars, process, loop, relay>>

\* Action::Connect(conv, _) => { cx.route(conv, action, tcp).await?;
\*     Ok(State::Accept(())) }: the task routes its own stream under the conv
\* it decoded.
ConnRoute(t) ==
    /\ Classifying(t)
    /\ task[t].want = "Connect"
    /\ \E ok \in BOOLEAN :
         /\ Route(task[t].conv, t, ok)
         /\ task' = [task EXCEPT ![t].st = IF ok THEN "accepted" ELSE "failed",
                                 ![t].call = RouteArgs(task[t].conv, t)]
    /\ UNCHANGED <<connVars, cipherVars, process, loop, relay>>

\* Action::TcpBind: spawn, then Accept(()) (after the debug log and its
\* peer_addr().unwrap(), or after the Err was sent), or the send error.
ConnBind(t) ==
    /\ Classifying(t)
    /\ task[t].want = "TcpBind"
    /\ \/ /\ \E st \in {"accepted", "failed"} : TaskEnds(t, st)
          /\ UNCHANGED <<process, relay>>
       \/ /\ DebugEnabled
          /\ PeerAddrUnwrap(t)
    /\ UNCHANGED <<connVars, cipherVars, loop, registry>>

\* Ok(Socks::Udp(forward)): the info log and its peer_addr().unwrap(), then
\* udp_forward: Release, or the udp_forward error.
ConnUdp(t) ==
    /\ Classifying(t)
    /\ task[t].want = "Udp"
    /\ \/ /\ \E st \in {"released", "failed"} : TaskEnds(t, st)
          /\ UNCHANGED <<process, relay>>
       \/ /\ InfoEnabled
          /\ PeerAddrUnwrap(t)
    /\ UNCHANGED <<connVars, cipherVars, loop, registry>>

\* The strategy chain ends in Accept(Forward(0, addr)) and the match is
\* completed, or the chain ends in an error on the way.
ConnForward(t) ==
    /\ Classifying(t)
    /\ task[t].want = "Forward"
    /\ \E st \in {"matched", "failed"} : TaskEnds(t, st)
    /\ UNCHANGED <<connVars, cipherVars, process, loop, registry, relay>>

\* fuso.for_each(move |stream| async move { let xor = Xor::new(xor_num);
\*     let (from, to) = stream.split(); let to = to.cipher(xor.clone()).await;
ForEachCall(t) ==
    /\ process = "running"
    /\ loop = LoopNext
    /\ task[t].st = "matched"
    /\ loop' = LoopClosure(t)
    /\ TaskEnds(t, "handed")
    /\ UNCHANGED <<connVars, cipherVars, process, registry, relay>>

\* A closure that awaits the forward it started.
ForwardAwait(t) ==
    /\ process = "running"
    /\ loop = LoopClosure(t)
    /\ relay[t].st = "none"
    /\ relay' = [relay EXCEPT ![t] = Relay("relaying", "copying", "copying")]
    /\ UNCHANGED <<connVars, cipherVars, process, loop, task, registry>>

\* from.forward(to).detach(); }): the forwarding task runs on its own and
\* the closure returns.
ForwardDetach(t) ==
    /\ process = "running"
    /\ loop = LoopClosure(t)
    /\ relay[t].st = "none"
    /\ relay' = [relay EXCEPT ![t] = Relay("relaying", "copying", "copying")]
    /\ loop' = LoopNext
    /\ UNCHANGED <<connVars, cipherVars, process, task, registry>>

\* The two directions of a relay.
Dirs == {"up", "down"}

\* A direction of the relay of t reaches end-of-stream or fails.
DirEnds(t) ==
    /\ process = "running"
    /\ relay[t].st = "relaying"
    /\ \E d \in Dirs, how \in {"eof", "error"} :
         /\ relay[t][d] = "copying"
         /\ relay' = [relay EXCEPT ![t][d] = how]
    /\ UNCHANGED <<connVars, cipherVars, process, loop, task, registry>>

\* How a direction stands once the forwarding task has ended.
Dropped(d) == IF d = "copying" THEN "dropped" ELSE d

\* A forward that ends only when both directions have ended.
ForwardJoin(t) ==
    /\ process = "running"
    /\ relay[t].st = "relaying"
    /\ relay[t].up # "copying" /\ relay[t].down # "copying"
    /\ relay' = [relay EXCEPT ![t] =
                   Relay(IF "error" \in {relay[t].up, relay[t].down} THEN "failed" ELSE "ended",
                         relay[t].up, relay[t].down)]
    /\ UNCHANGED <<connVars, cipherVars, process, loop, task, registry>>

\* from.forward(to): the forwarding task ends as soon as one direction has
\* ended, and the other direction is dropped with it.
ForwardEnds(t) ==
    /\ process = "running"
    /\ relay[t].st = "relaying"
    /\ relay[t].up # "copying" \/ relay[t].down # "copying"
    /\ relay' = [relay EXCEPT ![t] =
                   Relay(IF "error" \in {relay[t].up, relay[t].down} THEN "failed" ELSE "ended",
                         Dropped(relay[t].up), Dropped(relay[t].down))]
    /\ UNCHANGED <<connVars, cipherVars, process, loop, task, registry>>

ServerNext ==
    \E t \in Conns :
        \/ AcceptConn(t)
        \/ ConnRoute(t)
        \/ ConnBind(t)
        \/ ConnUdp(t)
        \/ ConnForward(t)
        \/ ForEachCall(t)
        \/ ForwardDetach(t)
        \/ DirEnds(t)
        \/ ForwardEnds(t)

SpecServer == ServerInit /\ [][ServerNext]_vars

\* The scheduler runs a forwarding task that can end.
SpecServerFair == SpecServer /\ \A t \in Conns : WF_vars(ForwardEnds(t))

Next ==
    \/ WsBegin
    \/ WsRead
    \/ WsWrite
    \/ ActRecv
    \/ ActBegin
    \/ ActSpawn
    \/ BindOk
    \/ BindErr
    \/ ActRoute
    \/ ActOther
    \/ SocksBegin
    \/ SocksAuth
    \/ SocksUdp
    \/ SocksTcp
    \/ SocksInvalid
    \/ SocksFatal
    \/ DefaultStage

Spec == Init /\ [][Next]_vars


(***************************************************************************)
(* Properties.                                                             *)
(***************************************************************************)
Done == pc = "done"

\* The stage at index i of the chain has returned.
Returned(i) == Len(trail) >= i

\* The position at which the stage at index i was entered (it runs or has run).
EntryOf(i) == IF Returned(i) THEN trail[i].entry ELSE entry

\* The probe stage's read returned a WebSocket probe.
ProbeRead(o) ==
    /\ o.stage = "ws"
    /\ o.op = "read"
    /\ IsProbe(SubSeq(input, o.from + 1, o.to))

ProbeMatched == \E i \in DOMAIN ops : ProbeRead(ops[i])

OpsOf(stage, op) == { i \in DOMAIN ops : ops[i].stage = stage /\ ops[i].op = op }

CallsOf(op) == { i \in DOMAIN calls : calls[i].op = op }

\* C1 (as stated): the run of the chain ends in Accept or Release, never in
\* an error.
Totality == Done => outcome.kind \in {"Accept", "Release"}

\* C1 (amended): the stages return one after another in the declared order,
\* each at most once; until the run ends every stage that returned said
\* Next and a step is possible; the run ends in exactly one outcome, that of
\* the last stage that returned, which is Accept, Release or a failure (a
\* fatal error or the task's abort), never the end of the chain.
TotalityOrFailure ==
    /\ Len(trail) <= Len(Chain)
    /\ \A i \in DOMAIN trail : trail[i].stage = Chain[i]
    /\ \A i \in DOMAIN trail : i < Len(trail) => trail[i].ret = "Next"
    /\ ~Done =>
         /\ outcome = Running
         /\ Len(trail) = idx - 1
         /\ \A i \in DOMAIN trail : trail[i].ret = "Next"
         /\ ENABLED Next
    /\ Done =>
         /\ outcome.kind \in {"Accept", "Release", "Error", "Panic"}
         /\ Len(trail) = idx
         /\ trail[idx].ret = outcome.kind

\* C1 witness: a run through all four stages that ends in Accept.
TotalityWitness ==
    /\ Done
    /\ Len(trail) = Len(Chain)
    /\ outcome.kind = "Accept"

\* C2 (as stated): whenever a stage returns Next, the next stage reads the
\* bytes, at the position, that the returning stage saw at its entry.
RollbackCorrect ==
    \A i \in DOMAIN trail :
        trail[i].ret = "Next" =>
            /\ trail[i].exit = trail[i].entry
            /\ Rest(trail[i].exit) = Rest(trail[i].entry)

\* C3 (as stated): when the probe stage's read returns a probe, the stage
\* writes exactly the 101 response and returns Next, and the dispatch stage
\* decodes from behind the probe bytes.
WsIdempotence ==
    \A i \in DOMAIN ops :
        ProbeRead(ops[i]) =>
            /\ Returned(1) =>
                 /\ trail[1].ret = "Next"
                 /\ StartsWith(written, WsResponse)
                 /\ Cardinality(OpsOf("ws", "write")) = 1
            /\ (Returned(1) /\ trail[1].ret = "Next") => EntryOf(2) >= ops[i].to
            /\ \A j \in OpsOf("act", "recv") : ops[j].from >= ops[i].to

\* C3 (amended): when the probe stage's read returns a probe, the stage
\* either writes exactly the 101 response and returns Next, or its write
\* fails after less than the whole response and the chain ends with that
\* error; the dispatch stage, when it runs, decodes from behind the probe
\* bytes.
WsIdempotenceOrWriteError ==
    \A i \in DOMAIN ops :
        ProbeRead(ops[i]) =>
            /\ Returned(1) =>
                 \/ /\ trail[1].ret = "Next"
                    /\ StartsWith(written, WsResponse)
                    /\ Cardinality(OpsOf("ws", "write")) = 1
                 \/ /\ trail[1].ret = "Error"
                    /\ outcome = Failure("write")
                    /\ Len(written) < Len(WsResponse)
                    /\ StartsWith(WsResponse, written)
                    /\ Done
            /\ ~Returned(1) => written = <<>>
            /\ (Returned(1) /\ trail[1].ret = "Next") => EntryOf(2) >= ops[i].to
            /\ \A j \in OpsOf("act", "recv") : ops[j].from >= ops[i].to

\* C3 witness: after a matched probe the dispatch stage has decoded an Action.
WsIdempotenceWitness ==
    /\ ProbeMatched
    /\ written = WsResponse
    /\ action # NoAction

\* C4 (as stated): a TcpBind whose spawn succeeds makes one spawn call, no
\* route call, sends no Err to the peer and ends in Accept(()).
BindExclusive ==
    (Done /\ action.tag = "TcpBind" /\ spawned.ok) =>
        /\ Cardinality(CallsOf("spawn")) = 1
        /\ CallsOf("route") = {}
        /\ OpsOf("act", "send") = {}
        /\ outcome = StateAccept(Unit)

\* C5 (as stated): a TcpBind whose spawn fails with message m sends
\* Action::Err(m) to the peer and ends in Accept(()), never in an error.
BindFailureInBand ==
    (Done /\ action.tag = "TcpBind" /\ CallsOf("spawn") # {} /\ ~spawned.ok) =>
        /\ EndsWith(written, EncodeAction(Err(spawned.msg)))
        /\ outcome = StateAccept(Unit)

\* C5 (amended): a TcpBind whose spawn fails with message m makes no route
\* call and either sends exactly Action::Err(m) to the peer and ends in
\* Accept(()), or the send fails after less than the whole message and the
\* chain ends with that send error; the spawn failure itself is never the
\* chain's error.
BindFailureInBandOrSendError ==
    (Done /\ action.tag = "TcpBind" /\ CallsOf("spawn") # {} /\ ~spawned.ok) =>
        /\ Cardinality(CallsOf("spawn")) = 1
        /\ CallsOf("route") = {}
        /\ \/ /\ outcome = StateAccept(Unit)
              /\ Cardinality(OpsOf("act", "send")) = 1
              /\ DecodeAction(EncodeAction(Err(spawned.msg))).action = Err(spawned.msg)
              /\ written \in {EncodeAction(Err(spawned.msg)),
                              WsResponse \o EncodeAction(Err(spawned.msg))}
           \/ /\ outcome = Failure("send")
              /\ OpsOf("act", "send") = {}
              /\ \E base \in {<<>>, WsResponse} :
                   /\ StartsWith(written, base)
                   /\ Len(written) - Len(base) < Len(EncodeAction(Err(spawned.msg)))
                   /\ StartsWith(EncodeAction(Err(spawned.msg)), Drop(written, Len(base)))

\* C5 witness: spawn failed, the peer was sent the Err and the chain accepted.
BindFailureWitness ==
    /\ Done
    /\ action.tag = "TcpBind"
    /\ spawned = SpawnErr(Msg1)
    /\ written = EncodeAction(Err(Msg1))
    /\ outcome = StateAccept(Unit)

\* C6: a decoded UdpBind(conv) or Connect(conv, addr) calls route exactly
\* once, with that conv, that action and the connection's stream, and never
\* spawn; the chain ends in Accept(()) when route succeeds and in the route
\* error when it fails, and then no strategy stage has run.
RouteDispatch ==
    /\ (pc = "act_match" /\ action.tag \in {"UdpBind", "Connect"}) => calls = <<>>
    /\ (Done /\ action.tag \in {"UdpBind", "Connect"}) =>
         /\ calls = << [op |-> "route", stream |-> "tcp", conv |-> action.conv,
                        action |-> action] >>
         /\ action = DecodeAction(Rest(trail[2].entry)).action
         /\ outcome \in {StateAccept(Unit), Failure("route")}
         /\ Len(trail) = 2
         /\ trail[2].stage = "act"
         /\ OpsOf("socks", "begin") = {}
         /\ OpsOf("socks", "auth") = {}

\* C6 witness: a Connect whose route call failed.
RouteDispatchWitness ==
    /\ Done
    /\ action = Connect(42, CoreDomain(Host1, 443))
    /\ outcome = Failure("route")

\* C7: when the SOCKS5 negotiation fails with InvalidData, the stage rolls
\* the stream back to where it entered and returns Next, the default stage
\* runs and the chain ends in Accept(Forward(0, Socket(0.0.0.0:0))); the
\* default stage returns that value whenever it returns.
SocksFallback ==
    /\ (res.kind = "InvalidData" /\ Returned(3)) =>
         /\ trail[3].stage = "socks"
         /\ trail[3].ret = "Next"
         /\ trail[3].exit = trail[3].entry
         /\ Cardinality(OpsOf("socks", "back")) = 1
         /\ ~Done => (pc = "default" /\ ENABLED DefaultStage)
         /\ Done =>
              /\ Len(trail) = 4
              /\ trail[4].stage = "default"
              /\ outcome = StateAccept(Forward(0, AnyAddr))
    /\ pc = "default" => ENABLED DefaultStage
    /\ \A i \in DOMAIN trail :
         trail[i].stage = "default" =>
             /\ trail[i].ret = "Accept"
             /\ outcome = StateAccept(Forward(0, CoreSocket(<<0, 0, 0, 0>>, 0)))

\* C7 witness: the negotiation consumed bytes, failed with InvalidData, and
\* the chain ended in the default stage.
SocksFallbackWitness ==
    /\ Done
    /\ res.kind = "InvalidData"
    /\ res.len > 0
    /\ Len(trail) = 4

\* No stream operation of the run failed.
NoIoFailure == outcome.kind = "Error" => outcome.why \notin {"read", "write", "recv", "send"}

\* No prefix of the input is a WebSocket probe.
NotProbeInput == \A n \in 0..Len(input) : ~IsProbe(Take(input, n))

\* C8 (as stated): an input that is no WebSocket probe, decodes as no Action
\* and is no SOCKS5 negotiation reaches the default stage and ends in
\* Accept(Forward(0, Socket(0.0.0.0:0))).
EndToEndFallback ==
    (/\ Done
     /\ NoIoFailure
     /\ NotProbeInput
     /\ ~DecodeAction(input).ok
     /\ Authenticate(input).kind \notin {"Tcp", "Udp"}) =>
        /\ Len(trail) = 4
        /\ trail[4].stage = "default"
        /\ outcome = StateAccept(Forward(0, AnyAddr))

\* C9: when the SOCKS5 negotiation yields a TCP connect to address a, the
\* stage releases the checkpoint without rolling back and the chain ends in
\* Accept(Forward(0, a')), a' of the same kind, host and port as a; the
\* default stage does not run.
SocksConnect ==
    (res.kind = "Tcp" /\ Returned(3)) =>
        /\ Done
        /\ Len(trail) = 3
        /\ trail[3].stage = "socks"
        /\ outcome.kind = "Accept"
        /\ outcome.val.tag = "Forward"
        /\ outcome.val.conv = 0
        /\ outcome.val.addr.lib = "core"
        /\ outcome.val.addr.kind = res.addr.kind
        /\ outcome.val.addr.host = res.addr.host
        /\ outcome.val.addr.port = res.addr.port
        /\ mark = NoMark
        /\ Cardinality(OpsOf("socks", "release")) = 1
        /\ OpsOf("socks", "back") = {}
        /\ trail[3].exit = trail[3].entry + res.len
        /\ pos = trail[3].exit

\* C9 witness: a SOCKS5 CONNECT to a domain name ended the chain.
SocksConnectWitness ==
    /\ Done
    /\ res.kind = "Tcp"
    /\ res.addr = SocksDomain(Host1, 443)
    /\ outcome = StateAccept(Forward(0, CoreDomain(Host1, 443)))

\* C10: for every key in 0..255 and every byte string, the cipher keeps the
\* length and, applied twice with the same key, gives the string back.
CipherRoundTrip ==
    /\ xor_num \in 0..255
    /\ fwd \in {"relay", "sent", "echoed"} => xor.key = xor_num
    /\ fwd \in {"sent", "echoed"} =>
         /\ Len(wire) = Len(plain)
         /\ \A i \in DOMAIN wire : wire[i] \in Byte
    /\ fwd = "echoed" =>
         /\ Len(recovered) = Len(plain)
         /\ recovered = plain

\* C10 witness: a non-empty string went through the cipher twice under key
\* 27 and differed on the wire.
CipherRoundTripWitness ==
    /\ fwd = "echoed"
    /\ xor_num = 27
    /\ Len(plain) = MaxLen
    /\ wire # plain
    /\ recovered = plain


\* The operations of a stage that consume bytes of the stream.
Consuming == {"read", "recv", "auth"}

\* C15 (as stated): in every stage that reads from the stream, the stage's
\* begin comes before the stage consumes any byte; in particular the action
\* dispatch stage has set its checkpoint before it decodes the Action.
CheckpointFirst ==
    \A j \in DOMAIN ops :
        ops[j].op \in Consuming =>
            \E i \in 1..(j - 1) : ops[i].stage = ops[j].stage /\ ops[i].op = "begin"

\* The pcs of the strategy chain.
StrategyPcs == {"socks_begin", "socks_auth", "socks_udp", "socks_tcp", "socks_invalid",
                "socks_fatal", "default"}

\* C16: when the action decoded by classifier stage 2 is Forward or Err, the
\* stage calls neither spawn nor route, sends nothing to the peer, calls
\* back once and returns Next, and the strategy chain runs.
FallThrough ==
    /\ (pc = "act_match" /\ action.tag \in {"Forward", "Err"}) =>
         /\ ENABLED ActOther
         /\ ~ENABLED ActSpawn
         /\ ~ENABLED ActRoute
         /\ calls = <<>>
    /\ (action.tag \in {"Forward", "Err"} /\ Returned(2)) =>
         /\ trail[2].stage = "act"
         /\ trail[2].ret = "Next"
         /\ CallsOf("spawn") = {}
         /\ CallsOf("route") = {}
         /\ OpsOf("act", "send") = {}
         /\ written \in {<<>>, WsResponse}
         /\ Cardinality(OpsOf("act", "back")) = 1
         /\ idx >= 3
         /\ Chain[idx] \in {"socks", "default"}
         /\ ~Done => pc \in StrategyPcs
         /\ Done => Len(trail) >= 3

\* C16 witness: a decoded Err fell through and the SOCKS5 stage has run its
\* negotiation.
FallThroughWitness ==
    /\ action.tag = "Err"
    /\ Returned(2)
    /\ OpsOf("socks", "auth") # {}
    /\ calls = <<>>

\* C17 (as stated): when the SOCKS5 negotiation yields a UDP associate, the
\* stage calls udp_forward exactly once and returns Release; no further stage
\* runs and the stage neither rolls the stream back nor releases it.
UdpAssociate ==
    (res.kind = "Udp" /\ Returned(3)) =>
        /\ trail[3].stage = "socks"
        /\ trail[3].ret = "Release"
        /\ Cardinality(CallsOf("udp_forward")) = 1
        /\ Done
        /\ outcome = StateRelease
        /\ Len(trail) = 3
        /\ OpsOf("socks", "back") = {}
        /\ OpsOf("socks", "release") = {}

\* C18: when the SOCKS5 negotiation fails with an error that is not
\* InvalidData, the stage returns that error and not Next, the chain ends
\* with it, the default stage is not run and no Forward is produced.
SocksFatalEnds ==
    /\ pc = "socks_fatal" =>
         /\ res.kind = "Other"
         /\ ENABLED SocksFatal
         /\ ~ENABLED SocksInvalid
    /\ (res.kind = "Other" /\ ~Returned(3)) => pc = "socks_fatal"
    /\ (res.kind = "Other" /\ Returned(3)) =>
         /\ trail[3].stage = "socks"
         /\ trail[3].ret = "Error"
         /\ Done
         /\ outcome = Failure("socks")
         /\ Len(trail) = 3
         /\ \A i \in DOMAIN trail : trail[i].stage # "default"
         /\ outcome.val # Forward(0, AnyAddr)
         /\ OpsOf("socks", "back") = {}

\* C18 witness: a negotiation that began as SOCKS5 and broke off ended the
\* chain with the negotiation's error.
SocksFatalEndsWitness ==
    /\ Done
    /\ res.kind = "Other"
    /\ res.len > 0
    /\ outcome = Failure("socks")

\* The place of a stage in the declared order.
StageIndex(stage) == CHOOSE i \in DOMAIN Chain : Chain[i] = stage

\* The stage a pc belongs to.
StageOfPc ==
    CASE pc \in {"ws_begin", "ws_read", "ws_write"} -> "ws"
      [] pc \in {"act_recv", "act_begin", "act_match", "bind_ok", "bind_err"} -> "act"
      [] pc = "default" -> "default"
      [] pc \in StrategyPcs \ {"default"} -> "socks"
      [] OTHER -> "none"

\* C19: the stages of one connection run one after another in the declared
\* order (WebSocket probe, action dispatch, SOCKS5 attempt, default); a
\* strategy stage runs only after both classifier stages returned Next, and
\* a connection whose classifier chain ended in Accept or in a failure never
\* has a SOCKS5 negotiation attempted on it.
ChainOrdering ==
    /\ Chain = <<"ws", "act", "socks", "default">>
    /\ \A i \in DOMAIN trail : trail[i].stage = Chain[i]
    /\ ~Done => (StageOfPc = Chain[idx] /\ Len(trail) = idx - 1)
    /\ \A i, j \in DOMAIN ops :
         i < j => StageIndex(ops[i].stage) <= StageIndex(ops[j].stage)
    /\ \A j \in DOMAIN ops :
         /\ StageIndex(ops[j].stage) <= idx
         /\ \A k \in 1..(StageIndex(ops[j].stage) - 1) :
              Returned(k) /\ trail[k].ret = "Next"
    /\ (pc \in StrategyPcs \/ res.kind # "None" \/ Returned(3)) =>
         /\ Returned(2)
         /\ trail[1].ret = "Next"
         /\ trail[2].ret = "Next"
    /\ (Done /\ Len(trail) <= 2) =>
         /\ outcome.kind \in {"Accept", "Error", "Panic"}
         /\ OpsOf("socks", "begin") = {}
         /\ OpsOf("socks", "auth") = {}
         /\ res.kind = "None"
         /\ CallsOf("udp_forward") = {}

\* C19 witness: the classifier chain accepted a bind with a whole SOCKS5
\* request waiting behind it, and no negotiation was attempted.
ChainOrderingWitness ==
    /\ Done
    /\ Len(trail) = 2
    /\ outcome = StateAccept(Unit)
    /\ Authenticate(Rest(pos)).kind = "Tcp"
    /\ res.kind = "None"

\* The spawn of a TcpBind has failed.
SpawnFailed == action.tag = "TcpBind" /\ CallsOf("spawn") # {} /\ ~spawned.ok

\* How much of a message of length n is on the wire once its write is
\* done, has failed, or was never started.
WrittenOf(n, done, failed) ==
    IF done THEN {n} ELSE IF failed THEN 0..(n - 1) ELSE {0}

\* C20: during a classifier run the bytes written to the peer are the 101
\* response (when, and only when, the probe matched) followed by
\* Action::Err(message) (when, and only when, a TcpBind's spawn failed); a
\* failed write leaves a part of its message; on every other path nothing
\* is written.
SilentClassifier ==
    LET errMsg == EncodeAction(Err(spawned.msg))
        wsDone == OpsOf("ws", "write") # {}
        wsFailed == outcome = Failure("write")
        sendDone == OpsOf("act", "send") # {}
        sendFailed == outcome = Failure("send")
    IN  /\ (wsDone \/ wsFailed) => ProbeMatched
        /\ (sendDone \/ sendFailed) => SpawnFailed
        /\ \E a \in WrittenOf(Len(WsResponse), wsDone, wsFailed) :
             \E b \in WrittenOf(Len(errMsg), sendDone, sendFailed) :
                written = Take(WsResponse, a) \o Take(errMsg, b)
        /\ (~ProbeMatched /\ ~SpawnFailed) => written = <<>>
        /\ (Done /\ ~SpawnFailed) => written \in {<<>>, WsResponse} \/ wsFailed
        /\ (Done /\ outcome \in {Failure("route"), Failure("decode"), Failure("recv"),
                                 Failure("read")}) =>
             written = (IF ProbeMatched THEN WsResponse ELSE <<>>)

\* C20 witness: both writes happened on one connection, the 101 response
\* and then the Err of a failed bind.
SilentClassifierWitness ==
    /\ Done
    /\ ProbeMatched
    /\ SpawnFailed
    /\ written = WsResponse \o EncodeAction(Err(spawned.msg))

\* The connection tasks that decoded a Connect and whose route call succeeded.
Routed(c) == { t \in Conns : task[t].want = "Connect" /\ task[t].conv = c
                             /\ task[t].st = "accepted" }

\* Every route call was given the caller's own conv and own stream, and the
\* registry holds under each conv exactly the streams routed to it.
OwnConvOnly ==
    /\ \A t \in Conns :
         /\ task[t].call # NoRoute =>
              /\ task[t].want = "Connect"
              /\ task[t].call = RouteArgs(task[t].conv, t)
         /\ (task[t].want = "Connect" /\ task[t].st \in {"accepted", "failed"}) =>
              task[t].call # NoRoute
    /\ \A c \in Convs :
         /\ { registry[c][i] : i \in DOMAIN registry[c] } = Routed(c)
         /\ Len(registry[c]) = Cardinality(Routed(c))

\* A step in which task t makes its route call leaves every other
\* conversation, and every other task, as it was.
RouteStepIsLocal ==
    \A t \in Conns :
        (task[t].call = NoRoute /\ task'[t].call # NoRoute) =>
            /\ \A c \in Convs \ {task[t].conv} : registry'[c] = registry[c]
            /\ \A u \in Conns \ {t} : task'[u] = task[u]
            /\ process' = process

\* C11: for concurrent connection tasks that decode Connect requests with
\* distinct convs, under every interleaving each task's route call carries
\* only its own conv and its own stream, and routing one conv leaves the
\* registry state of every other conv unchanged.
ConvIsolation == []OwnConvOnly /\ [][RouteStepIsLocal]_vars

\* C11 witness: two concurrent tasks have routed Connects with distinct convs.
ConvIsolationWitness ==
    /\ task[1].want = "Connect" /\ task[2].want = "Connect"
    /\ task[1].conv # task[2].conv
    /\ task[1].st = "accepted" /\ task[2].st = "accepted"
    /\ registry[task[1].conv] = <<1>>
    /\ registry[task[2].conv] = <<2>>

\* C12 (as stated): no failure of a connection's run terminates the
\* process; a failure (a peer_addr lookup that fails for a log line
\* included) ends only the task that owns it, and the acceptor and all
\* other tasks keep running.
ErrorContainment ==
    /\ process = "running"
    /\ \A t \in Conns :
         /\ task[t].st # "killed"
         /\ relay[t].st # "killed"
    /\ (loop = LoopNext /\ \E t \in Conns : task[t].st = "free") =>
         \E t \in Conns : ENABLED AcceptConn(t)

\* A direction of the forwarding task of t has reached end-of-stream or failed.
HalfClosed(t) ==
    /\ relay[t].st = "relaying"
    /\ relay[t].up \in {"eof", "error"} \/ relay[t].down \in {"eof", "error"}

\* The forwarding task of t is over and neither direction copies any more.
ForwardOver(t) ==
    /\ relay[t].st \in {"ended", "failed", "killed"}
    /\ relay[t].up # "copying"
    /\ relay[t].down # "copying"

\* C13: once either direction of a forwarding task reaches end-of-stream or
\* fails, the other direction eventually terminates as well and the task
\* ends; no forwarding task stays half-open forever.
ForwarderTerminates == \A t \in Conns : HalfClosed(t) ~> ForwardOver(t)

\* C13 witness: one direction reached end-of-stream while the other was
\* still copying, and the task ended with the other direction dropped.
ForwarderTerminatesWitness ==
    \E t \in Conns :
        /\ relay[t].st = "ended"
        /\ relay[t].up = "eof"
        /\ relay[t].down = "dropped"

\* Every match the closure has finished with has its own forwarding task;
\* the for_each loop is held only while the closure body runs, never while
\* a forwarding task runs, and whenever it polls for the next match a
\* further connection can be accepted.
DetachedForward ==
    /\ \A t \in Conns :
         /\ (task[t].st = "handed" /\ loop # LoopClosure(t)) => relay[t].st # "none"
         /\ relay[t].st # "none" => (task[t].st = "handed" /\ loop # LoopClosure(t))
         /\ loop = LoopClosure(t) => (task[t].st = "handed" /\ relay[t].st = "none")
         /\ (process = "running" /\ loop = LoopClosure(t)) => ENABLED ForwardDetach(t)
    /\ (process = "running" /\ loop = LoopNext /\ \E t \in Conns : task[t].st = "free") =>
         \E t \in Conns : ENABLED AcceptConn(t)

\* A step in which a direction of the forwarding task of t fails, or in
\* which that task ends, changes nothing but that task.
ForwardStepIsLocal ==
    \A t \in Conns :
        (relay[t].st = "relaying" /\ relay'[t] # relay[t] /\ relay'[t].st # "killed") =>
            /\ process' = process
            /\ loop' = loop
            /\ task' = task
            /\ registry' = registry
            /\ \A u \in Conns \ {t} : relay'[u] = relay[u]

\* C14: each completed match starts its own detached forwarding task, the
\* acceptor goes on to accept connections without waiting for that task, and
\* an I/O error inside one forwarding task ends that task only.
FireAndForget == []DetachedForward /\ [][ForwardStepIsLocal]_vars

\* C14 witness: two matches were detached one after the other; the first
\* forwarding task has failed with an I/O error, the second still relays
\* both ways and the loop polls for the next match.
FireAndForgetWitness ==
    /\ process = "running"
    /\ loop = LoopNext
    /\ relay[1] = Relay("failed", "error", "dropped")
    /\ relay[2] = Relay("relaying", "copying", "copying")

=============================================================================
